---- MODULE Spec2Model ----
(***************************************************************************)
(* A model of google_ads_data: the account-directory lookups of            *)
(* account_utils.py and the query construction, size probe and streamed    *)
(* execution of ga_utils.py.                                               *)
(*                                                                         *)
(* Python strings are TLA+ strings, handled character by character with    *)
(* Len, SubSeq and \o.  Python values whose type the code tests or relies  *)
(* on (None, str, int, dict) are tagged records, see PyNone .. PyDict.     *)
(* A call that raises is an outcome record with raised = TRUE.             *)
(***************************************************************************)
EXTENDS Integers, Sequences, FiniteSets, TLC

VARIABLES
    pc,                 \* position of the call in progress
    args,               \* arguments of the call in progress
    outcome,            \* what the call returned or raised, NoOutcome until then
    AdWordsAccounts,    \* directory store: the AdWordsAccounts collection
    CustomerAccounts,   \* directory store: the CustomerAccounts collection
    ads,                \* behaviour of the remote ads service for this call
    query,              \* the GAQL query built by get_ga_data
    size_query,         \* the probe query built by check_result_size
    rows,               \* execute_query's local list of rows
    cursor,             \* number of stream records consumed so far
    requests            \* remote requests issued so far, in order

vars == <<pc, args, outcome, AdWordsAccounts, CustomerAccounts, ads, query,
          size_query, rows, cursor, requests>>

----------------------------------------------------------------------------
(* Python values *)

PyNone == [t |-> "none"]
PyStr(s) == [t |-> "str", v |-> s]
PyInt(i) == [t |-> "int", v |-> i]
PyDict(d) == [t |-> "dict", v |-> d]

\* the empty dict {}
EmptyDict == PyDict(<<>>)

Returned(v) == [raised |-> FALSE, value |-> v]
Raised(e) == [raised |-> TRUE, exc |-> e]
NoOutcome == [raised |-> FALSE, pending |-> TRUE]

----------------------------------------------------------------------------
(* Python string methods, on TLA+ strings *)

Char(s, i) == SubSeq(s, i, i)

\* needle in haystack (str.__contains__)
StrContains(haystack, needle) ==
    \E i \in 1..(Len(haystack) - Len(needle) + 1) :
        SubSeq(haystack, i, i + Len(needle) - 1) = needle

\* index of the first occurrence of sep in s, 0 if there is none (str.find + 1)
StrFind(s, sep) ==
    LET hits == {i \in 1..(Len(s) - Len(sep) + 1) : SubSeq(s, i, i + Len(sep) - 1) = sep}
    IN  IF hits = {} THEN 0 ELSE CHOOSE i \in hits : \A j \in hits : i <= j

\* s.split(sep), sep non-empty
RECURSIVE StrSplit(_, _)
StrSplit(s, sep) ==
    LET i == StrFind(s, sep)
    IN  IF i = 0 THEN <<s>>
        ELSE <<SubSeq(s, 1, i - 1)>>
                 \o StrSplit(SubSeq(s, i + Len(sep), Len(s)), sep)

\* sep.join(parts)
RECURSIVE StrJoin(_, _)
StrJoin(sep, parts) ==
    IF Len(parts) = 0 THEN ""
    ELSE IF Len(parts) = 1 THEN parts[1]
    ELSE parts[1] \o sep \o StrJoin(sep, Tail(parts))

LowerAlphabet == "abcdefghijklmnopqrstuvwxyz"
UpperAlphabet == "ABCDEFGHIJKLMNOPQRSTUVWXYZ"

CharUpper(c) ==
    LET i == StrFind(LowerAlphabet, c)
    IN  IF i = 0 THEN c ELSE Char(UpperAlphabet, i)

CharLower(c) ==
    LET i == StrFind(UpperAlphabet, c)
    IN  IF i = 0 THEN c ELSE Char(LowerAlphabet, i)

\* s.lower()
RECURSIVE StrLower(_)
StrLower(s) ==
    IF Len(s) = 0 THEN "" ELSE CharLower(Char(s, 1)) \o StrLower(SubSeq(s, 2, Len(s)))

\* s.capitalize(): first character upper-cased, the rest lower-cased
StrCapitalize(s) ==
    IF Len(s) = 0 THEN "" ELSE CharUpper(Char(s, 1)) \o StrLower(SubSeq(s, 2, Len(s)))

----------------------------------------------------------------------------
(* ga_utils.py: field paths *)

RECURSIVE ConcatCapitalized(_)
ConcatCapitalized(parts) ==
    IF Len(parts) = 0 THEN ""
    ELSE StrCapitalize(parts[1]) \o ConcatCapitalized(Tail(parts))

snake_to_camel(snake_string) ==
    LET temp == StrSplit(snake_string, "_")
    IN  temp[1] \o ConcatCapitalized(Tail(temp))

\* `k not in value` followed by `value.get(k)`, one step of the loop of
\* get_nested_dict_value; value is any Python value.
\*   dict: key membership, then the entry
\*   str : substring test; when k occurs in it, str has no .get
\*   int : `in` on an int is a TypeError
NestedStep(k, value) ==
    IF value.t = "dict"
    THEN IF k \in DOMAIN value.v THEN Returned(value.v[k]) ELSE [raised |-> FALSE, stop |-> TRUE]
    ELSE IF value.t = "str"
    THEN IF StrContains(value.v, k) THEN Raised("AttributeError") ELSE [raised |-> FALSE, stop |-> TRUE]
    ELSE Raised("TypeError")

RECURSIVE NestedWalk(_, _)
NestedWalk(keys, value) ==
    IF Len(keys) = 0 THEN Returned(value)
    ELSE LET step == NestedStep(keys[1], value)
         IN  IF step.raised THEN step
             ELSE IF "stop" \in DOMAIN step THEN Returned(PyNone)
             ELSE NestedWalk(Tail(keys), step.value)

get_nested_dict_value(key, nested_dict) ==
    NestedWalk(StrSplit(key, "."), nested_dict)

----------------------------------------------------------------------------
(* Values the variables hold while a specification does not use them *)

Idle == [t |-> "none"]

----------------------------------------------------------------------------
(* SpecNested: get_nested_dict_value applied to bounded records and paths *)

MaxPathLen == 3
MaxDepth == 2

PathKeys == {"a", "b", "c"}
Scalars == {PyStr("ab"), PyInt(5)}

\* records as MessageToDict produces them: a dict whose entries are scalars
\* or dicts again, an entry with a default value being absent
RECURSIVE NestedDicts(_)
NestedValues(depth) == IF depth = 0 THEN Scalars ELSE Scalars \cup NestedDicts(depth)
NestedDicts(depth) ==
    LET below == NestedValues(depth - 1)
    IN  {EmptyDict}
        \cup {PyDict([k \in {"a"} |-> v]) : v \in below}
        \cup {PyDict([k \in {"b"} |-> s]) : s \in Scalars}
        \cup {PyDict([k \in {"a", "b"} |-> IF k = "a" THEN v[1] ELSE v[2]]) :
                v \in below \X Scalars}

Paths == UNION {[1..n -> PathKeys] : n \in 1..MaxPathLen}

InitNested ==
    /\ pc = "nested_call"
    /\ args \in {[key |-> StrJoin(".", p), path |-> p, nested_dict |-> d] :
                    p \in Paths, d \in NestedDicts(MaxDepth)}
    /\ outcome = NoOutcome
    /\ AdWordsAccounts = Idle /\ CustomerAccounts = Idle /\ ads = Idle
    /\ query = Idle /\ size_query = Idle /\ rows = Idle
    /\ cursor = Idle /\ requests = Idle

GetNestedDictValue ==
    /\ pc = "nested_call"
    /\ outcome' = get_nested_dict_value(args.key, args.nested_dict)
    /\ pc' = "nested_done"
    /\ UNCHANGED <<args, AdWordsAccounts, CustomerAccounts, ads, query,
                   size_query, rows, cursor, requests>>

NextNested == GetNestedDictValue

SpecNested == InitNested /\ [][NextNested]_vars

\* The walk the claim describes: follow the path while the value reached is
\* a record holding the next key; None as soon as the key is missing at its
\* level, whatever the value reached is.
RECURSIVE WalkOrNone(_, _)
WalkOrNone(path, value) ==
    IF Len(path) = 0 THEN value
    ELSE IF value.t = "dict" /\ path[1] \in DOMAIN value.v
    THEN WalkOrNone(Tail(path), value.v[path[1]])
    ELSE PyNone

\* C6: for every record and every dot-separated path, get_nested_dict_value
\* returns the value reached by walking the path when every key is present,
\* and None without raising when some key is missing at its level, also
\* when the value reached before the missing key is a scalar.
C6_NestedNeverRaises ==
    pc = "nested_done" =>
        /\ ~outcome.raised
        /\ outcome.value = WalkOrNone(args.path, args.nested_dict)

----------------------------------------------------------------------------
(* account_utils.py: the account directory.  A collection is the sequence   *)
(* of its documents in natural order; a document is a function from field   *)
(* names to values, an absent field being outside its DOMAIN.               *)

Has(doc, field) == field \in DOMAIN doc

\* collection.find_one(criteria), hits being the positions of the documents
\* that match the criteria: the first of them, or None
FindOne(collection, hits) ==
    IF hits = {} THEN PyNone
    ELSE collection[CHOOSE i \in hits : \A j \in hits : i <= j]

\* {"$regex": "^<name>$", "$options": "-i"} on a name without regex
\* metacharacters: the whole value, compared without regard to case
RegexNameMatch(name, value) == StrLower(value) = StrLower(name)

\* the query {"data.customerId.customerId": cust_id}
MatchesCustId(doc, cust_id) ==
    /\ Has(doc, "data")
    /\ Has(doc.data, "customerId")
    /\ Has(doc.data.customerId, "customerId")
    /\ doc.data.customerId.customerId = cust_id

cust_id_to_account(cust_id) ==
    FindOne(AdWordsAccounts,
            {i \in 1..Len(AdWordsAccounts) : MatchesCustId(AdWordsAccounts[i], cust_id)})

account_name_to_account(account_name, cust_name) ==
    LET customer ==
            FindOne(CustomerAccounts,
                    {i \in 1..Len(CustomerAccounts) :
                        /\ Has(CustomerAccounts[i], "name")
                        /\ RegexNameMatch(cust_name, CustomerAccounts[i].name)})
        MatchesAccount(doc) ==
            /\ Has(doc, "type") /\ doc.type = "google"
            /\ cust_name # "" =>
                   \E i \in 1..Len(customer.accounts) : customer.accounts[i] = doc._id
            /\ Has(doc, "name") /\ RegexNameMatch(account_name, doc.name)
    IN  IF cust_name # "" /\ customer = PyNone THEN PyNone
        ELSE FindOne(AdWordsAccounts,
                     {i \in 1..Len(AdWordsAccounts) : MatchesAccount(AdWordsAccounts[i])})

\* dict.get(key): the entry, or None
DictGet(doc, key) == IF Has(doc, key) THEN PyStr(doc[key]) ELSE PyNone

account_to_refresh_tokenKeyError(account) ==
    IF account = PyNone THEN Returned(PyNone)
    ELSE IF ~Has(account, "data") \/ ~Has(account.data, "refresh_token")
    THEN Raised("KeyError")
    ELSE Returned(PyStr(account.data.refresh_token))

account_to_refresh_token(account) ==
    IF account = PyNone \/ ~Has(account, "data") THEN Returned(PyNone)
    ELSE Returned(DictGet(account.data, "refresh_token"))

account_name_to_refresh_token(account_name, cust_name) ==
    account_to_refresh_token(account_name_to_account(account_name, cust_name))

account_name_to_cust_id(account_name, cust_name) ==
    LET account == account_name_to_account(account_name, cust_name)
    IN  IF account = PyNone \/ ~Has(account, "data") \/ ~Has(account.data, "customerId")
        THEN Returned(PyNone)
        ELSE Returned(DictGet(account.data.customerId, "customerId"))

cust_id_to_refresh_token(cust_id) ==
    account_to_refresh_token(cust_id_to_account(cust_id))

----------------------------------------------------------------------------
(* SpecDirectory: the public lookups over bounded directory contents *)

MaxAccounts == 2

AccountNames == {"acme", "Beta"}

\* the "data" entry of account number i, in every degree of completeness
AccountData(i) ==
    LET cid == IF i = 1 THEN "111" ELSE "222"
        tok == IF i = 1 THEN "tok1" ELSE "tok2"
    IN  { <<>>,
          [refresh_token |-> tok],
          [customerId |-> <<>>],
          [customerId |-> [customerId |-> cid]],
          [customerId |-> [customerId |-> cid], refresh_token |-> tok],
          [customerId |-> [customerId |-> "111"], refresh_token |-> tok] }

AccountDocs(i) ==
    {[_id |-> i, type |-> "bing", name |-> n] : n \in AccountNames}
    \cup {[_id |-> i, type |-> "google", name |-> n] : n \in AccountNames}
    \cup {[_id |-> i, type |-> "google", name |-> n, data |-> d] :
            n \in AccountNames, d \in AccountData(i)}

AccountCollections ==
    UNION {{c \in [1..n -> UNION {AccountDocs(i) : i \in 1..n}] :
               \A i \in 1..n : c[i]._id = i} : n \in 0..MaxAccounts}

CustomerCollections ==
    { <<>>,
      <<[_id |-> 10, name |-> "Corp", accounts |-> <<1>>],
        [_id |-> 11, name |-> "Other", accounts |-> <<2, 1>>]>> }

LookupAccountNames == {"ACME", "zeta"}
LookupCustNames == {"", "corp", "nobody"}
LookupCustIds == {"111", "222", "999"}

InitDirectory ==
    /\ pc = "lookup_call"
    /\ AdWordsAccounts \in AccountCollections
    /\ CustomerAccounts \in CustomerCollections
    /\ args = Idle /\ outcome = NoOutcome /\ ads = Idle
    /\ query = Idle /\ size_query = Idle /\ rows = Idle
    /\ cursor = Idle /\ requests = Idle

AccountNameToCustId ==
    /\ pc = "lookup_call"
    /\ \E an \in LookupAccountNames, cn \in LookupCustNames :
          /\ args' = [fn |-> "account_name_to_cust_id", account_name |-> an, cust_name |-> cn]
          /\ outcome' = account_name_to_cust_id(an, cn)
    /\ pc' = "lookup_done"
    /\ UNCHANGED <<AdWordsAccounts, CustomerAccounts, ads, query, size_query,
                   rows, cursor, requests>>

AccountNameToRefreshToken ==
    /\ pc = "lookup_call"
    /\ \E an \in LookupAccountNames, cn \in LookupCustNames :
          /\ args' = [fn |-> "account_name_to_refresh_token", account_name |-> an, cust_name |-> cn]
          /\ outcome' = account_name_to_refresh_token(an, cn)
    /\ pc' = "lookup_done"
    /\ UNCHANGED <<AdWordsAccounts, CustomerAccounts, ads, query, size_query,
                   rows, cursor, requests>>

CustIdToRefreshToken ==
    /\ pc = "lookup_call"
    /\ \E cid \in LookupCustIds :
          /\ args' = [fn |-> "cust_id_to_refresh_token", cust_id |-> cid]
          /\ outcome' = cust_id_to_refresh_token(cid)
    /\ pc' = "lookup_done"
    /\ UNCHANGED <<AdWordsAccounts, CustomerAccounts, ads, query, size_query,
                   rows, cursor, requests>>

NextDirectory ==
    \/ AccountNameToCustId
    \/ AccountNameToRefreshToken
    \/ CustIdToRefreshToken

SpecDirectory == InitDirectory /\ [][NextDirectory]_vars

\* The directory as the claim reads it: the owning customers a name
\* designates, the accounts a name (and owner) designates, the first of them
\* in the store's order.
SameName(a, b) == StrLower(a) = StrLower(b)

Owners(cust_name) ==
    {i \in 1..Len(CustomerAccounts) : SameName(CustomerAccounts[i].name, cust_name)}

FirstOf(S) == CHOOSE i \in S : \A j \in S : i <= j

OwnedIds(cust_name) ==
    LET owner == CustomerAccounts[FirstOf(Owners(cust_name))]
    IN  {owner.accounts[k] : k \in 1..Len(owner.accounts)}

NamedAccounts(account_name, cust_name) ==
    {i \in 1..Len(AdWordsAccounts) :
        /\ AdWordsAccounts[i].type = "google"
        /\ SameName(AdWordsAccounts[i].name, account_name)
        /\ cust_name # "" => /\ Owners(cust_name) # {}
                             /\ AdWordsAccounts[i]._id \in OwnedIds(cust_name)}

AccountsOfCustId(cust_id) ==
    {i \in 1..Len(AdWordsAccounts) :
        /\ "data" \in DOMAIN AdWordsAccounts[i]
        /\ "customerId" \in DOMAIN AdWordsAccounts[i].data
        /\ "customerId" \in DOMAIN AdWordsAccounts[i].data.customerId
        /\ AdWordsAccounts[i].data.customerId.customerId = cust_id}

StoredCustId(S) ==
    IF S = {} THEN PyNone
    ELSE LET acct == AdWordsAccounts[FirstOf(S)]
         IN  IF /\ "data" \in DOMAIN acct
                /\ "customerId" \in DOMAIN acct.data
                /\ "customerId" \in DOMAIN acct.data.customerId
             THEN PyStr(acct.data.customerId.customerId)
             ELSE PyNone

StoredRefreshToken(S) ==
    IF S = {} THEN PyNone
    ELSE LET acct == AdWordsAccounts[FirstOf(S)]
         IN  IF "data" \in DOMAIN acct /\ "refresh_token" \in DOMAIN acct.data
             THEN PyStr(acct.data.refresh_token)
             ELSE PyNone

----------------------------------------------------------------------------
(* ga_utils.py: dates.  A datetime.date is [t |-> "date", y, m, d], a       *)
(* datetime.datetime carries the hour as well.                              *)

PyDate(y, m, d) == [t |-> "date", y |-> y, m |-> m, d |-> d]
PyDatetime(y, m, d, hh) == [t |-> "datetime", y |-> y, m |-> m, d |-> d, hh |-> hh]

\* isinstance(x, datetime.datetime)
IsDatetime(x) == x.t = "datetime"

\* datetime.date()
DateOf(dt) == PyDate(dt.y, dt.m, dt.d)

DaysInMonth(y, m) ==
    IF m = 2 THEN (IF y % 4 = 0 /\ (y % 100 # 0 \/ y % 400 = 0) THEN 29 ELSE 28)
    ELSE IF m \in {4, 6, 9, 11} THEN 30 ELSE 31

NextDay(dt) ==
    IF dt.d < DaysInMonth(dt.y, dt.m) THEN [dt EXCEPT !.d = dt.d + 1]
    ELSE IF dt.m < 12 THEN [dt EXCEPT !.m = dt.m + 1, !.d = 1]
    ELSE [dt EXCEPT !.y = dt.y + 1, !.m = 1, !.d = 1]

PrevDay(dt) ==
    IF dt.d > 1 THEN [dt EXCEPT !.d = dt.d - 1]
    ELSE IF dt.m > 1 THEN [dt EXCEPT !.m = dt.m - 1, !.d = DaysInMonth(dt.y, dt.m - 1)]
    ELSE [dt EXCEPT !.y = dt.y - 1, !.m = 12, !.d = 31]

\* a wall-clock datetime moved by a whole number of hours, |hours| < 24
ShiftHours(dt, hours) ==
    LET hh == dt.hh + hours
    IN  IF hh < 0 THEN [PrevDay(dt) EXCEPT !.hh = hh + 24]
        ELSE IF hh > 23 THEN [NextDay(dt) EXCEPT !.hh = hh - 24]
        ELSE [dt EXCEPT !.hh = hh]

\* datetime.datetime.utcnow().astimezone(timezone): utcnow() is naive, and
\* astimezone() reads a naive datetime as the process's local time.  clock
\* is [utcnow, local_offset]: the UTC wall clock and the local UTC offset
\* of the process, in hours; tz_offset is the account time zone's.
UtcnowAstimezone(clock, tz_offset) ==
    ShiftHours(clock.utcnow, tz_offset - clock.local_offset)

\* account_time, once service.search has returned the account's time zone
account_time(clock, tz_offset) == UtcnowAstimezone(clock, tz_offset)

account_date(clock, tz_offset) == DateOf(account_time(clock, tz_offset))

Digit(n) == Char("0123456789", n + 1)
ZeroPad2(n) == Digit((n \div 10) % 10) \o Digit(n % 10)
ZeroPad4(n) == ZeroPad2(n \div 100) \o ZeroPad2(n % 100)

\* date.strftime("%Y-%m-%d")
StrftimeYmd(date) == ZeroPad4(date.y) \o "-" \o ZeroPad2(date.m) \o "-" \o ZeroPad2(date.d)

----------------------------------------------------------------------------
(* ga_utils.py: query construction and the size probe *)

\* lines 302-312 of make_base_query: one bound, defaulted and truncated
ResolveBound(bound, today) ==
    LET given == IF bound = PyNone THEN today ELSE bound
    IN  IF IsDatetime(given) THEN DateOf(given) ELSE given

make_base_querySingleSpace(today, from_resource, fields, start, end, zero_impressions) ==
    LET wheres ==
            (IF zero_impressions = FALSE THEN <<"metrics.impressions > 0">> ELSE <<>>)
            \o <<"segments.date >= '" \o StrftimeYmd(ResolveBound(start, today)) \o "'">>
            \o <<"segments.date <= '" \o StrftimeYmd(ResolveBound(end, today)) \o "'">>
    IN  "SELECT " \o StrJoin(", ", fields) \o " FROM " \o from_resource
            \o " WHERE " \o StrJoin(" AND ", wheres)

\* make_base_query with today = account_date(cust_id) already resolved
make_base_query(today, from_resource, fields, start, end, zero_impressions) ==
    LET start_date == ResolveBound(start, today)
        end_date == ResolveBound(end, today)
        select == "SELECT " \o StrJoin(", ", fields) \o (" FROM " \o from_resource \o " ")
        wheres0 == IF zero_impressions = FALSE THEN <<"metrics.impressions > 0">> ELSE <<>>
        wheres1 == Append(wheres0, "segments.date >= '" \o StrftimeYmd(start_date) \o "'")
        wheres2 == Append(wheres1, "segments.date <= '" \o StrftimeYmd(end_date) \o "'")
        whereclause == StrJoin(" AND ", wheres2)
    IN  select \o (" WHERE " \o whereclause)

get_ga_data_queryPartitioned(today, a) ==
    make_base_query(today, a.from_resource, a.fields, a.start, a.end, a.zero_impressions)
        \o " AND " \o StrJoin(" AND ", a.wheres \o <<"campaign.id IN (1, 2)">>)

\* lines 472-475 of get_ga_data: the query it hands to execute_query
get_ga_data_query(today, a) ==
    LET base == make_base_query(today, a.from_resource, a.fields, a.start, a.end,
                                a.zero_impressions)
    IN  IF a.wheres # <<>> THEN base \o " AND " \o StrJoin(" AND ", a.wheres) ELSE base

\* lines 422-424 of check_result_size: the probe query
size_query_of(q) ==
    LET query_split == StrSplit(q, "FROM")
    IN  StrSplit(query_split[1], ", ")[1] \o " FROM " \o query_split[2]

----------------------------------------------------------------------------
(* SpecQuery: the query get_ga_data builds and the probe derived from it *)

FieldLists ==
    { <<"campaign.id", "metrics.impressions">>,
      <<"campaign.id">>,
      <<"ad_group.status", "metrics.cost_micros", "campaign.id">> }

Resources == {"campaign", "keyword_view"}

DateArgs == {PyNone, PyDate(2023, 1, 1), PyDatetime(2024, 2, 29, 23)}

ExtraWheres ==
    { <<>>,
      <<"campaign.status = 'ENABLED'">>,
      <<"campaign.name = 'FROM'", "ad_group.id > 0">> }

Clocks ==
    {[utcnow |-> PyDatetime(2023, 1, 1, 3), local_offset |-> lo] : lo \in {0, -5}}
    \cup {[utcnow |-> PyDatetime(2023, 12, 31, 22), local_offset |-> 0]}

TimeZoneOffsets == {-8, 9}

QueryArgs ==
    [cust_id : {"111"}, from_resource : Resources, fields : FieldLists,
     start : DateArgs, end : DateArgs, zero_impressions : BOOLEAN,
     wheres : ExtraWheres]

InitQuery ==
    /\ pc = "query_call"
    /\ args \in QueryArgs
    /\ ads \in [clock : Clocks, time_zone : TimeZoneOffsets]
    /\ outcome = NoOutcome
    /\ AdWordsAccounts = Idle /\ CustomerAccounts = Idle
    /\ query = Idle /\ size_query = Idle /\ rows = Idle
    /\ cursor = Idle /\ requests = Idle

BuildQuery ==
    /\ pc = "query_call"
    /\ query' = get_ga_data_query(account_date(ads.clock, ads.time_zone), args)
    /\ pc' = "query_built"
    /\ UNCHANGED <<args, outcome, AdWordsAccounts, CustomerAccounts, ads,
                   size_query, rows, cursor, requests>>

CheckResultSizeQuery ==
    /\ pc = "query_built"
    /\ size_query' = size_query_of(query)
    /\ pc' = "query_probed"
    /\ UNCHANGED <<args, outcome, AdWordsAccounts, CustomerAccounts, ads,
                   query, rows, cursor, requests>>

NextQuery ==
    \/ BuildQuery
    \/ CheckResultSizeQuery

SpecQuery == InitQuery /\ [][NextQuery]_vars

\* The query as the claim spells it.
TwoDigits ==
    <<"01", "02", "03", "04", "05", "06", "07", "08", "09", "10", "11", "12",
      "13", "14", "15", "16", "17", "18", "19", "20", "21", "22", "23", "24",
      "25", "26", "27", "28", "29", "30", "31">>

YearDigits(y) ==
    CASE y = 2022 -> "2022" [] y = 2023 -> "2023" [] y = 2024 -> "2024"

IsoDate(x) == YearDigits(x.y) \o "-" \o TwoDigits[x.m] \o "-" \o TwoDigits[x.d]

\* the date a bound stands for: the account's today when omitted
BoundDate(bound) ==
    IF bound = PyNone THEN account_date(ads.clock, ads.time_zone) ELSE bound

RECURSIVE Glue(_, _)
Glue(parts, sep) ==
    IF parts = <<>> THEN ""
    ELSE Glue(SubSeq(parts, 1, Len(parts) - 1), sep)
            \o (IF Len(parts) > 1 THEN sep ELSE "") \o parts[Len(parts)]

ClaimedPredicates ==
    (IF args.zero_impressions THEN <<>> ELSE <<"metrics.impressions > 0">>)
    \o <<"segments.date >= '" \o IsoDate(BoundDate(args.start)) \o "'",
         "segments.date <= '" \o IsoDate(BoundDate(args.end)) \o "'">>
    \o args.wheres

ClaimedQuery ==
    "SELECT " \o Glue(args.fields, ", ") \o " FROM " \o args.from_resource
        \o "  WHERE " \o Glue(ClaimedPredicates, " AND ")

IsSpecExample ==
    /\ args.fields = <<"campaign.id", "metrics.impressions">>
    /\ args.from_resource = "campaign"
    /\ args.start = PyDate(2023, 1, 1) /\ args.end = PyDate(2023, 1, 1)
    /\ args.zero_impressions = TRUE
    /\ args.wheres = <<>>

SpecExampleQuery ==
    "SELECT campaign.id, metrics.impressions FROM campaign  WHERE segments.date >= '2023-01-01' AND segments.date <= '2023-01-01'"

\* C8: the query get_ga_data sends is 'SELECT ' + fields joined by ', ' +
\* ' FROM ' + resource + '  WHERE ' + predicates joined by ' AND ', the
\* predicates being the impressions filter (exactly when zero-impression
\* rows are excluded), the start bound, the end bound (YYYY-MM-DD) and then
\* the caller's extra predicates in their order; for the example of the
\* specification it is the example string.
C8_QueryText ==
    pc \in {"query_built", "query_probed"} =>
        /\ query = ClaimedQuery
        /\ IsSpecExample => query = SpecExampleQuery

C8_Witness ==
    /\ pc = "query_built"
    /\ IsSpecExample
    /\ query = SpecExampleQuery

\* the current date in the account's own time zone
AccountToday == DateOf(ShiftHours(ads.clock.utcnow, ads.time_zone))

\* an omitted bound is the account's today, a timestamp its date, a date itself
ClaimedBound(bound) ==
    IF bound = PyNone THEN AccountToday ELSE PyDate(bound.y, bound.m, bound.d)

\* C13: make_base_query resolves start and end independently of each other:
\* an omitted bound is the current date in the account's own time zone, a
\* supplied timestamp is cut to its date and a supplied date is used as
\* given, so with one bound supplied the other is the account's today.
C13_BoundsResolvedIndependently ==
    pc \in {"query_built", "query_probed"} =>
        /\ StrContains(query, " segments.date >= '" \o IsoDate(ClaimedBound(args.start)) \o "'")
        /\ StrContains(query, " segments.date <= '" \o IsoDate(ClaimedBound(args.end)) \o "'")

\* the text following the FROM keyword of the query: the resource name and
\* the whole WHERE clause
AfterFrom == SubSeq(query, Len("SELECT " \o Glue(args.fields, ", ") \o " FROM") + 1, Len(query))

EndsWith(s, suffix) ==
    /\ Len(suffix) <= Len(s)
    /\ SubSeq(s, Len(s) - Len(suffix) + 1, Len(s)) = suffix

\* C7: the probe query of check_result_size rewrites only the field
\* selection: the text following the query's FROM keyword (resource name and
\* full WHERE clause, every extra predicate included) appears in the probe
\* query unchanged.
C7_ProbeKeepsFromWhere ==
    pc = "query_probed" => EndsWith(size_query, AfterFrom)

----------------------------------------------------------------------------
(* ga_utils.py: credentials and the service client *)

MAX_RESULT_SIZE == 2000000

CATEGORICAL_COLS ==
    {"ad_group.status", "campaign.status", "customer.id", "customer.status",
     "customer.descriptive_name", "ad_group_ad.ad.type",
     "ad_group_ad_asset_view.field_type",
     "ad_group_ad_asset_view.performance_label", "ad_group_ad.status"}

\* s.replace(old, new)
StrReplace(s, old, new) == StrJoin(new, StrSplit(s, old))

make_base_ga_config_dict(refresh_token) ==
    [refresh_token |-> refresh_token, client_id |-> "client_id",
     client_secret |-> "client_secret", developer_token |-> "developer_token",
     use_proto_plus |-> TRUE]

\* int() of a string of decimal digits; any other string is a ValueError
IsDigits(s) == Len(s) > 0 /\ \A i \in 1..Len(s) : \E d \in 0..9 : Digit(d) = Char(s, i)

RECURSIVE PyIntOfStr(_)
PyIntOfStr(s) ==
    IF s = "" THEN 0
    ELSE 10 * PyIntOfStr(SubSeq(s, 1, Len(s) - 1))
         + (CHOOSE d \in 0..9 : Digit(d) = Char(s, Len(s)))

\* the loop over direct_ids from position i on: a listing that raises
\* GoogleAdsException is skipped, any other exception propagates, and each
\* listed customer_client.id is compared with int(cust_id)
RECURSIVE SearchParents(_, _, _, _)
SearchParents(cust_id, direct_ids, customer_clients, i) ==
    IF i > Len(direct_ids) THEN Returned(PyNone)
    ELSE LET response == customer_clients[direct_ids[i]]
         IN  IF response.error = "GoogleAdsException"
                 THEN SearchParents(cust_id, direct_ids, customer_clients, i + 1)
             ELSE IF response.error # "none" THEN Raised(response.error)
             ELSE IF response.results = <<>>
                 THEN SearchParents(cust_id, direct_ids, customer_clients, i + 1)
             ELSE IF ~IsDigits(cust_id) THEN Raised("ValueError")
             ELSE IF \E k \in 1..Len(response.results) :
                         response.results[k] = PyIntOfStr(cust_id)
                 THEN Returned(PyStr(direct_ids[i]))
             ELSE SearchParents(cust_id, direct_ids, customer_clients, i + 1)

get_login_customer_idLastParent(cust_id, resource_names, customer_clients) ==
    LET direct_ids == [i \in 1..Len(resource_names) |->
                          StrReplace(resource_names[Len(resource_names) + 1 - i],
                                     "customers/", "")]
    IN  IF \E i \in 1..Len(direct_ids) : direct_ids[i] = cust_id
            THEN Returned(PyStr(cust_id))
        ELSE SearchParents(cust_id, direct_ids, customer_clients, 1)

\* get_login_customer_id over what the service lists for the refresh token:
\* resource_names, the accessible top-level accounts in listing order, and
\* customer_clients, for each of them the response of the enabled
\* sub-account listing: the exception it raises, or the listed ids
get_login_customer_id(cust_id, resource_names, customer_clients) ==
    LET direct_ids == [i \in 1..Len(resource_names) |->
                          StrReplace(resource_names[i], "customers/", "")]
    IN  IF \E i \in 1..Len(direct_ids) : direct_ids[i] = cust_id
            THEN Returned(PyStr(cust_id))
        ELSE SearchParents(cust_id, direct_ids, customer_clients, 1)

build_config_dict(cust_id) ==
    LET refresh_token == cust_id_to_refresh_token(cust_id).value
    IN  IF refresh_token = PyNone THEN PyNone
        ELSE [t |-> "dict",
              v |-> make_base_ga_config_dict(refresh_token.v),
              login_customer_id |->
                  get_login_customer_id(cust_id, ads.resource_names,
                                        ads.customer_clients).value]

\* None, or the client of service_name built from the config dict
get_ga_api_service(cust_id, service_name) ==
    LET config_dict == build_config_dict(cust_id)
    IN  IF config_dict = PyNone THEN PyNone
        ELSE [t |-> "service", name |-> service_name, config |-> config_dict]

----------------------------------------------------------------------------
(* ga_utils.py: execute_query *)

\* exceptions.Unknown and the other error classes of the transport
ErrorClasses == {"Unknown", "ServiceUnavailable"}

\* `except exceptions.Unknown`
IsUnknownAnyError(exc) == TRUE

IsUnknown(exc) == exc = "Unknown"

camel_fields_of(fields) == [i \in 1..Len(fields) |-> snake_to_camel(fields[i])]

\* lines 381-386 (and 394-399): the row of one result, or the first raise
extract_rowUncamelled(fields, result_dict) ==
    LET got == [i \in 1..Len(fields) |-> get_nested_dict_value(fields[i], result_dict)]
    IN  Returned([i \in 1..Len(fields) |-> got[i].value])

extract_row(fields, result_dict) ==
    LET camel_fields == camel_fields_of(fields)
        got == [i \in 1..Len(camel_fields) |->
                   get_nested_dict_value(camel_fields[i], result_dict)]
        bad == {i \in 1..Len(got) : got[i].raised}
    IN  IF bad # {} THEN got[CHOOSE i \in bad : \A j \in bad : i <= j]
        ELSE Returned([i \in 1..Len(got) |-> got[i].value])

convert_to_category_dtype(df) ==
    [df EXCEPT !.category =
        {col \in CATEGORICAL_COLS : \E i \in 1..Len(df.columns) : df.columns[i] = col}]

\* pandas.DataFrame(rows, columns=fields)
DataFrame(data, columns) == [columns |-> columns, rows |-> data, category |-> {}]

\* lines 401-402
execute_query_result(data, fields) ==
    Returned(convert_to_category_dtype(DataFrame(data, fields)))

----------------------------------------------------------------------------
(* SpecLogin: get_login_customer_id against what the service lists for a
   refresh token *)

MaxTopLevel == 2

TopLevelIds == {"444", "555", "666"}
LoginCustIds == {"222", "333", "444"}

\* what list_accessible_customers returns: distinct resource names
AccessibleCustomers ==
    {rn \in UNION {[1..n -> {"customers/" \o id : id \in TopLevelIds}] : n \in 0..MaxTopLevel} :
        \A i, j \in 1..Len(rn) : rn[i] = rn[j] => i = j}

\* what the CUSTOMER_CLIENT_QUERY search does for one parent: it raises, or
\* it lists the customer_client.id of the enabled sub-accounts
ClientListings ==
    {[error |-> "none", results |-> r] : r \in {<<>>, <<222>>, <<333, 222>>}}
    \cup {[error |-> e, results |-> <<>>] : e \in {"GoogleAdsException", "ServiceUnavailable"}}

InitLogin ==
    /\ pc = "login_call"
    /\ ads \in [resource_names : AccessibleCustomers,
                customer_clients : [TopLevelIds -> ClientListings]]
    /\ args = Idle /\ outcome = NoOutcome
    /\ AdWordsAccounts = Idle /\ CustomerAccounts = Idle
    /\ query = Idle /\ size_query = Idle /\ rows = Idle
    /\ cursor = Idle /\ requests = Idle

\* line 105 raises: nothing catches it
ListAccessibleCustomersRaises ==
    /\ pc = "login_call"
    /\ \E cust_id \in LoginCustIds, e \in {"GoogleAdsException", "ServiceUnavailable"} :
          /\ args' = [cust_id |-> cust_id]
          /\ outcome' = Raised(e)
    /\ pc' = "login_failed"
    /\ UNCHANGED <<AdWordsAccounts, CustomerAccounts, ads, query, size_query,
                   rows, cursor, requests>>

GetLoginCustomerId ==
    /\ pc = "login_call"
    /\ \E cust_id \in LoginCustIds :
          /\ args' = [cust_id |-> cust_id]
          /\ outcome' = get_login_customer_id(cust_id, ads.resource_names,
                                              ads.customer_clients)
    /\ pc' = "login_done"
    /\ UNCHANGED <<AdWordsAccounts, CustomerAccounts, ads, query, size_query,
                   rows, cursor, requests>>

NextLogin == ListAccessibleCustomersRaises \/ GetLoginCustomerId

SpecLogin == InitLogin /\ [][NextLogin]_vars

\* the number a customer id stands for
IdNumber(id) ==
    CASE id = "222" -> 222 [] id = "333" -> 333 [] id = "444" -> 444
      [] id = "555" -> 555 [] id = "666" -> 666

TopLevelAt(i) == CHOOSE id \in TopLevelIds : ads.resource_names[i] = "customers/" \o id

IsTopLevel(id) == \E i \in 1..Len(ads.resource_names) : TopLevelAt(i) = id

\* the top-level accounts, by position in the listing, whose sub-account
\* listing contains the target id
Qualifying(id) ==
    {i \in 1..Len(ads.resource_names) :
        LET listing == ads.customer_clients[TopLevelAt(i)]
        IN  /\ listing.error = "none"
            /\ \E k \in 1..Len(listing.results) : listing.results[k] = IdNumber(id)}

\* the top-level accounts whose listing fails with another exception
Failing ==
    {i \in 1..Len(ads.resource_names) :
        ads.customer_clients[TopLevelAt(i)].error \notin {"none", "GoogleAdsException"}}

FirstQualifying(id) == CHOOSE i \in Qualifying(id) : \A j \in Qualifying(id) : i <= j

\* C12: get_login_customer_id returns the target id itself when it is an
\* accessible top-level account; otherwise the first top-level account, in
\* listing order, whose enabled sub-account listing contains the target id,
\* skipping every account whose listing raises GoogleAdsException; and None
\* when no top-level account qualifies.
C12_LoginCustomerId ==
    pc = "login_done" =>
        LET id == args.cust_id
        IN  IF IsTopLevel(id) THEN outcome = Returned(PyStr(id))
            ELSE /\ (Qualifying(id) # {} /\ \A j \in Failing : j > FirstQualifying(id))
                       => outcome = Returned(PyStr(TopLevelAt(FirstQualifying(id))))
                 /\ (Qualifying(id) = {} /\ Failing = {})
                       => outcome = Returned(PyNone)

C12_Witness ==
    /\ pc = "login_done"
    /\ ~IsTopLevel(args.cust_id)
    /\ Len(ads.resource_names) = 2
    /\ ads.customer_clients[TopLevelAt(1)].error = "GoogleAdsException"
    /\ ads.customer_clients[TopLevelAt(2)].results = <<333, 222>>
    /\ outcome = Returned(PyStr(TopLevelAt(2)))

----------------------------------------------------------------------------
(* Spec: one call of get_ga_data against a directory and a remote service *)

MaxResults == 3
MaxCampaigns == 3

\* result records as MessageToDict renders them: camel-case keys, 64-bit
\* integers as strings, entries with a default value left out
ResultRecords ==
    << PyDict([campaign |-> PyDict([id |-> PyStr("1"), status |-> PyStr("ENABLED")]),
               metrics |-> PyDict([impressions |-> PyStr("5"), costMicros |-> PyStr("100")]),
               adGroup |-> PyDict([status |-> PyStr("PAUSED")])]),
       PyDict([campaign |-> PyDict([id |-> PyStr("2")]),
               metrics |-> EmptyDict]),
       PyDict([campaign |-> PyDict([id |-> PyStr("3"), status |-> PyStr("REMOVED")]),
               metrics |-> PyDict([costMicros |-> PyStr("7")]),
               adGroup |-> PyDict([status |-> PyStr("ENABLED")])]),
       PyDict([campaign |-> PyDict([id |-> PyStr("4")]),
               metrics |-> PyDict([impressions |-> PyStr("9")])]) >>

\* the records of a response cut into stream batches of batch_size
RECURSIVE Batched(_, _)
Batched(results, batch_size) ==
    IF Len(results) <= batch_size THEN <<results>>
    ELSE <<SubSeq(results, 1, batch_size)>>
             \o Batched(SubSeq(results, batch_size + 1, Len(results)), batch_size)

Directories ==
    { <<>>,
      <<[_id |-> 1, type |-> "google", name |-> "acme",
         data |-> [customerId |-> [customerId |-> "111"]]]>>,
      <<[_id |-> 1, type |-> "google", name |-> "acme",
         data |-> [customerId |-> [customerId |-> "111"], refresh_token |-> "tok1"]]>> }

GaDataArgs ==
    {a \in [cust_id : {"111"}, from_resource : Resources,
            fields : {<<"campaign.id", "metrics.impressions">>,
                      <<"ad_group.status", "metrics.cost_micros", "campaign.id">>},
            start : {PyNone, PyDate(2023, 1, 1)},
            end : {PyNone, PyDatetime(2024, 2, 29, 23)},
            zero_impressions : BOOLEAN,
            wheres : {<<>>, <<"campaign.status = 'ENABLED'">>}] :
        (a.start = PyNone) = (a.end = PyNone)}

Services ==
    {[clock |-> [utcnow |-> PyDatetime(2023, 1, 1, 3), local_offset |-> 0],
      time_zone |-> -8,
      resource_names |-> <<"customers/111">>,
      customer_clients |-> [p \in {"111"} |-> [error |-> "none", results |-> <<>>]],
      batches |-> Batched(SubSeq(ResultRecords, 1, n), b),
      response |-> SubSeq(ResultRecords, 1, n),
      total_results_count |-> c,
      campaign_ids |-> [i \in 1..k |-> i]] :
        n \in 0..MaxResults, b \in 1..2,
        c \in {MAX_RESULT_SIZE, MAX_RESULT_SIZE + 1}, k \in {0, MaxCampaigns}}

Init ==
    /\ pc = "get_ga_data"
    /\ AdWordsAccounts \in Directories
    /\ CustomerAccounts = <<>>
    /\ args \in GaDataArgs
    /\ ads \in Services
    /\ outcome = NoOutcome
    /\ query = PyNone /\ size_query = PyNone
    /\ rows = <<>> /\ cursor = 0 /\ requests = <<>>

TIME_ZONE_QUERY == "SELECT customer.time_zone FROM customer"

Request(api, cust_id, q) ==
    [api |-> api, customer_id |-> cust_id, query |-> q, error |-> "none"]

\* the last request, marked with the error its response raised
Failed(reqs, exc) == [reqs EXCEPT ![Len(reqs)].error = exc]

\* make_base_query, line 301: account_time without credentials.  service is
\* None and service.search raises AttributeError, which nothing catches.
AccountTimeNoService ==
    /\ pc = "get_ga_data"
    /\ get_ga_api_service(args.cust_id, "GoogleAdsService") = PyNone
    /\ outcome' = Raised("AttributeError")
    /\ pc' = "done"
    /\ UNCHANGED <<args, AdWordsAccounts, CustomerAccounts, ads, query,
                   size_query, rows, cursor, requests>>

\* account_time's time-zone lookup raises: nothing catches it
AccountTimeFails ==
    /\ pc = "get_ga_data"
    /\ get_ga_api_service(args.cust_id, "GoogleAdsService") # PyNone
    /\ \E exc \in ErrorClasses :
          /\ requests' = Failed(Append(requests,
                                   Request("search", args.cust_id, TIME_ZONE_QUERY)), exc)
          /\ outcome' = Raised(exc)
    /\ pc' = "done"
    /\ UNCHANGED <<args, AdWordsAccounts, CustomerAccounts, ads, query,
                   size_query, rows, cursor>>

MakeQueryLazyLookup ==
    /\ pc = "get_ga_data"
    /\ get_ga_api_service(args.cust_id, "GoogleAdsService") # PyNone
    /\ requests' = IF args.start # PyNone /\ args.end # PyNone THEN requests
                   ELSE Append(requests, Request("search", args.cust_id, TIME_ZONE_QUERY))
    /\ query' = get_ga_data_query(account_date(ads.clock, ads.time_zone), args)
    /\ pc' = "execute_query"
    /\ UNCHANGED <<args, outcome, AdWordsAccounts, CustomerAccounts, ads,
                   size_query, rows, cursor>>

\* get_ga_data, lines 472-475: the time-zone lookup answers and the query
\* is built
MakeQuery ==
    /\ pc = "get_ga_data"
    /\ get_ga_api_service(args.cust_id, "GoogleAdsService") # PyNone
    /\ requests' = Append(requests, Request("search", args.cust_id, TIME_ZONE_QUERY))
    /\ query' = get_ga_data_query(account_date(ads.clock, ads.time_zone), args)
    /\ pc' = "execute_query"
    /\ UNCHANGED <<args, outcome, AdWordsAccounts, CustomerAccounts, ads,
                   size_query, rows, cursor>>

\* execute_query, lines 370-377: the streaming request is issued
SearchStream ==
    /\ pc = "execute_query"
    /\ get_ga_api_service(args.cust_id, "GoogleAdsService") # PyNone
    /\ requests' = Append(requests, Request("search_stream", args.cust_id, query))
    /\ rows' = <<>>
    /\ cursor' = 0
    /\ pc' = "stream"
    /\ UNCHANGED <<args, outcome, AdWordsAccounts, CustomerAccounts, ads,
                   query, size_query>>

\* search_stream itself raises, outside the try block
SearchStreamFails ==
    /\ pc = "execute_query"
    /\ get_ga_api_service(args.cust_id, "GoogleAdsService") # PyNone
    /\ \E exc \in ErrorClasses :
          /\ requests' = Failed(Append(requests,
                                   Request("search_stream", args.cust_id, query)), exc)
          /\ outcome' = Raised(exc)
    /\ pc' = "done"
    /\ UNCHANGED <<args, AdWordsAccounts, CustomerAccounts, ads, query,
                   size_query, rows, cursor>>

RECURSIVE NthResultBatchReversed(_, _)
NthResultBatchReversed(batches, n) ==
    IF n <= Len(batches[1]) THEN batches[1][Len(batches[1]) - n + 1]
    ELSE NthResultBatchReversed(Tail(batches), n - Len(batches[1]))

\* the n-th result of the nested loop over the batches and their results
RECURSIVE NthResult(_, _)
NthResult(batches, n) ==
    IF n <= Len(batches[1]) THEN batches[1][n]
    ELSE NthResult(Tail(batches), n - Len(batches[1]))

RECURSIVE CountResults(_)
CountResults(batches) ==
    IF batches = <<>> THEN 0 ELSE Len(batches[1]) + CountResults(Tail(batches))

\* what appending the row of one result does: the row joins rows, or the
\* raise of get_nested_dict_value leaves the function
AppendRow(result_dict, next_pc) ==
    LET row == extract_row(args.fields, result_dict)
    IN  IF row.raised
        THEN /\ outcome' = row
             /\ pc' = "done"
             /\ UNCHANGED <<rows, cursor>>
        ELSE /\ rows' = Append(rows, row.value)
             /\ cursor' = cursor + 1
             /\ pc' = next_pc
             /\ UNCHANGED outcome

\* lines 379-386: one more result of the stream
StreamResult ==
    /\ pc = "stream"
    /\ cursor < CountResults(ads.batches)
    /\ AppendRow(NthResult(ads.batches, cursor + 1), "stream")
    /\ UNCHANGED <<args, AdWordsAccounts, CustomerAccounts, ads, query,
                   size_query, requests>>

\* the stream raises while it is iterated, at any point: an Unknown enters
\* the except block with rows as they are, anything else leaves the function
StreamRaises ==
    /\ pc = "stream"
    /\ \E exc \in ErrorClasses :
          /\ requests' = Failed(requests, exc)
          /\ IF IsUnknown(exc)
             THEN pc' = "except_unknown" /\ UNCHANGED outcome
             ELSE pc' = "done" /\ outcome' = Raised(exc)
    /\ UNCHANGED <<args, AdWordsAccounts, CustomerAccounts, ads, query,
                   size_query, rows, cursor>>

\* lines 388-392: the non-streaming request of the except block
SearchFallback ==
    /\ pc = "except_unknown"
    /\ requests' = Append(requests, Request("search", args.cust_id, query))
    /\ cursor' = 0
    /\ pc' = "response"
    /\ UNCHANGED <<args, outcome, AdWordsAccounts, CustomerAccounts, ads,
                   query, size_query, rows>>

\* lines 393-399: one more result of the response
ResponseResult ==
    /\ pc = "response"
    /\ cursor < Len(ads.response)
    /\ AppendRow(ads.response[cursor + 1], "response")
    /\ UNCHANGED <<args, AdWordsAccounts, CustomerAccounts, ads, query,
                   size_query, requests>>

\* the non-streaming request, or the iteration of its pages, raises:
\* nothing catches it
ResponseRaises ==
    /\ pc = "response"
    /\ \E exc \in ErrorClasses :
          /\ requests' = Failed(requests, exc)
          /\ outcome' = Raised(exc)
    /\ pc' = "done"
    /\ UNCHANGED <<args, AdWordsAccounts, CustomerAccounts, ads, query,
                   size_query, rows, cursor>>

\* lines 401-402 and 477-479: the table is built and returned
ReturnTable ==
    /\ \/ pc = "stream" /\ cursor = CountResults(ads.batches)
       \/ pc = "response" /\ cursor = Len(ads.response)
    /\ outcome' = execute_query_result(rows, args.fields)
    /\ pc' = "done"
    /\ UNCHANGED <<args, AdWordsAccounts, CustomerAccounts, ads, query,
                   size_query, rows, cursor, requests>>

Next ==
    \/ AccountTimeNoService
    \/ AccountTimeFails
    \/ MakeQuery
    \/ SearchStream
    \/ SearchStreamFails
    \/ StreamResult
    \/ StreamRaises
    \/ SearchFallback
    \/ ResponseResult
    \/ ResponseRaises
    \/ ReturnTable

Spec == Init /\ [][Next]_vars

----------------------------------------------------------------------------
(* What the claims say of a call, in terms of the requests it issued *)

IsStreamRequest(r) == r.api = "search_stream"
IsFallbackRequest(r) == r.api = "search" /\ r.query # TIME_ZONE_QUERY

StreamRequests == SelectSeq(requests, IsStreamRequest)
FallbackRequests == SelectSeq(requests, IsFallbackRequest)

TableReturned == pc = "done" /\ ~outcome.raised

\* the path of each field in a result record
ClaimedPath(field) ==
    CASE field = "campaign.id" -> <<"campaign", "id">>
      [] field = "metrics.impressions" -> <<"metrics", "impressions">>
      [] field = "ad_group.status" -> <<"adGroup", "status">>
      [] field = "metrics.cost_micros" -> <<"metrics", "costMicros">>

ClaimedRow(result) ==
    [i \in 1..Len(args.fields) |-> WalkOrNone(ClaimedPath(args.fields[i]), result)]

ClaimedRows(results) == [j \in 1..Len(results) |-> ClaimedRow(results[j])]

\* C1: when the stream raises the Unknown error after k >= 0 records were
\* extracted, the table returned holds exactly the rows of the non-streaming
\* response, one per record in response order, and none of the k rows
\* extracted from the stream.
C1_FallbackReplacesPartialRows ==
    TableReturned /\ FallbackRequests # <<>> =>
        outcome.value.rows = ClaimedRows(ads.response)

\* C2: the non-streaming request is issued at most once, only right after
\* the streaming request of the same customer id and query raised Unknown
\* while it was consumed; any other error of the stream and any error of
\* the non-streaming request leave the call with that error and no table.
C2_SingleRecoveryPath ==
    /\ Len(FallbackRequests) <= 1
    /\ \A i \in 1..Len(requests) :
          IsFallbackRequest(requests[i]) =>
              /\ i > 1
              /\ IsStreamRequest(requests[i - 1])
              /\ requests[i - 1].error = "Unknown"
              /\ requests[i].customer_id = requests[i - 1].customer_id
              /\ requests[i].query = requests[i - 1].query
              /\ requests[i].customer_id = args.cust_id
              /\ requests[i].query = query
    /\ \A i \in 1..Len(requests) :
          /\ pc = "done"
          /\ \/ IsStreamRequest(requests[i]) /\ requests[i].error \notin {"none", "Unknown"}
             \/ IsFallbackRequest(requests[i]) /\ requests[i].error # "none"
          => outcome = Raised(requests[i].error)

C2_Witness ==
    /\ pc = "done"
    /\ Len(FallbackRequests) = 1
    /\ FallbackRequests[1].error = "Unknown"
    /\ outcome = Raised("Unknown")
    /\ rows # <<>>

\* the records the rows of the table were extracted from, in order: the
\* stream's, then (when the except block ran) the response's
SourceRecords ==
    IF FallbackRequests = <<>> THEN ads.response
    ELSE SubSeq(ads.response, 1, Len(outcome.value.rows) - Len(ads.response))
             \o ads.response

\* C3: the column headers of the table returned equal the field list F in
\* the same order and, in every row, the value at position i is the one
\* extracted for F[i], whether the row came from the stream or from the
\* non-streaming request.
C3_ColumnsFollowFields ==
    TableReturned =>
        /\ outcome.value.columns = args.fields
        /\ Len(outcome.value.rows) = Len(SourceRecords)
        /\ \A j \in 1..Len(outcome.value.rows) :
              /\ Len(outcome.value.rows[j]) = Len(args.fields)
              /\ \A i \in 1..Len(args.fields) :
                    outcome.value.rows[j][i] =
                        WalkOrNone(ClaimedPath(args.fields[i]), SourceRecords[j])

C3_Witness ==
    /\ TableReturned
    /\ FallbackRequests # <<>>
    /\ Len(args.fields) = 3
    /\ Len(outcome.value.rows) > Len(ads.response)
    /\ outcome.value.rows[1] = <<PyStr("PAUSED"), PyStr("100"), PyStr("1")>>

\* the resource kinds the partitioner applies to
PartitionableResources == {"keyword_view"}

CeilDiv(a, b) == (a + b - 1) \div b

\* the contiguous chunks of the campaign ids the partitioner is to make
ClaimedChunks ==
    LET ids == ads.campaign_ids
        batches == CeilDiv(ads.total_results_count, MAX_RESULT_SIZE)
        step == CeilDiv(Len(ids), batches)
    IN  IF Len(ids) = 0 THEN <<>>
        ELSE [c \in 1..CeilDiv(Len(ids), step) |->
                 SubSeq(ids, (c - 1) * step + 1,
                        IF c * step < Len(ids) THEN c * step ELSE Len(ids))]

\* C4: a query whose estimated size exceeds MAX_RESULT_SIZE, on a
\* partitionable resource, is split into the campaign-id chunks, every
\* chunk being executed as its own sub-query with a campaign.id IN
\* predicate.
C4_OversizedQueryIsPartitioned ==
    /\ TableReturned
    /\ ads.total_results_count > MAX_RESULT_SIZE
    /\ args.from_resource \in PartitionableResources
    => /\ Len(StreamRequests) = Len(ClaimedChunks)
       /\ \A i \in 1..Len(StreamRequests) :
             StrContains(StreamRequests[i].query, "campaign.id IN")

\* C5: a query whose estimated size is at most MAX_RESULT_SIZE is never
\* partitioned: execute_query is called exactly once, with the query built
\* from the caller's parameters and no campaign.id IN predicate.
C5_NoPartitionBelowLimit ==
    ads.total_results_count <= MAX_RESULT_SIZE =>
        /\ Len(StreamRequests) <= 1
        /\ pc \in {"stream", "except_unknown", "response"} \/ TableReturned
              => Len(StreamRequests) = 1
        /\ \A i \in 1..Len(StreamRequests) :
              /\ StreamRequests[i].customer_id = args.cust_id
              /\ StreamRequests[i].query = ClaimedQuery
              /\ ~StrContains(StreamRequests[i].query, "campaign.id IN")

C5_Witness ==
    /\ TableReturned
    /\ ads.total_results_count <= MAX_RESULT_SIZE
    /\ args.from_resource \in PartitionableResources
    /\ Len(StreamRequests) = 1
    /\ outcome.value.rows # <<>>

NoCredentials == cust_id_to_refresh_token(args.cust_id) = Returned(PyNone)

\* C9: when credential resolution returns nothing, build_config_dict and
\* get_ga_api_service return None and every function using them, up to
\* get_ga_data, returns a null or empty result rather than raising.
C9_NoCredentialsNoRaise ==
    NoCredentials =>
        /\ build_config_dict(args.cust_id) = PyNone
        /\ get_ga_api_service(args.cust_id, "GoogleAdsService") = PyNone
        /\ pc = "done" => ~outcome.raised

\* the records of the batches one after the other, batch by batch
RECURSIVE Flattened(_)
Flattened(batches) ==
    IF batches = <<>> THEN <<>>
    ELSE Flattened(SubSeq(batches, 1, Len(batches) - 1)) \o batches[Len(batches)]

StreamCompleted ==
    /\ TableReturned
    /\ FallbackRequests = <<>>
    /\ Len(StreamRequests) = 1 /\ StreamRequests[1].error = "none"

IsTimeZoneLookup(r) == r.api = "search" /\ r.query = TIME_ZONE_QUERY

TimeZoneLookupFailed ==
    \E j \in 1..Len(requests) : IsTimeZoneLookup(requests[j]) /\ requests[j].error # "none"

\* C14: in every get_ga_data call the account time-zone lookup is issued
\* before the data request, also when the caller supplies both start and
\* end; and when the lookup fails, or there are no credentials, the call
\* fails and no streaming data request is ever issued.
C14_TimeZoneLookupFirst ==
    /\ \A i \in 1..Len(requests) :
          IsStreamRequest(requests[i]) =>
              \E j \in 1..(i - 1) :
                  IsTimeZoneLookup(requests[j]) /\ requests[j].error = "none"
    /\ (pc # "get_ga_data" /\ ~NoCredentials) =>
          /\ requests # <<>>
          /\ IsTimeZoneLookup(requests[1])
    /\ (NoCredentials \/ TimeZoneLookupFailed) =>
          /\ StreamRequests = <<>>
          /\ pc = "done" => outcome.raised
          /\ pc \in {"get_ga_data", "done"}

C14_Witness ==
    /\ args.start # PyNone /\ args.end # PyNone
    /\ Len(requests) >= 2
    /\ IsTimeZoneLookup(requests[1]) /\ requests[1].error = "none"
    /\ IsStreamRequest(requests[2])

====
